---- MODULE Spec2Model ----
(***************************************************************************)
(* A model of tmc-langs-util's file_util (path locks, create_file_lock,    *)
(* copy) and of the Ant and Make student file policies.                    *)
(*                                                                         *)
(* Three groups of variables:                                              *)
(*   - the lock world: files with an OS-level exclusive lock each, and     *)
(*     processes that run lock!(..) scopes, open_file_lock and             *)
(*     create_file_lock, one system call per step;                         *)
(*   - the classifier world: a raw path text and the policies' answers;    *)
(*   - the merge world: an update tree merged into a target tree.          *)
(***************************************************************************)
EXTENDS Integers, Sequences, FiniteSets, TLC

\* ------------------------------------------------------------------ bounds

\* Number of concurrent processes sharing the filesystem.
NumProcs == 2

\* Longest raw path text handed to the classifiers.
MaxPathLen == 5

\* Most entries the filesystem holds, their ancestors apart, when copy is
\* called.
MaxEntries == 2

\* Most calls made to the classifiers about one path.
MaxCalls == 2


Procs == 1..NumProcs

\* The files the processes contend for.
Paths == {"f", "g"}

\* The path lists a lock!(..) invocation is given: one or two distinct paths.
Batches == {<<"f">>, <<"g">>, <<"f", "g">>, <<"g", "f">>}

\* How the body of a lock!(..) scope can end: falling off the end, an early
\* return, an error propagated with ?, a panic unwinding the stack.
BodyExits == {"return", "early", "error", "unwind"}

VARIABLES
    exists,     \* exists[f]: a file is present at path f
    content,    \* content[f]: the lines of the file at f
    flock,      \* flock[f]: the process holding the exclusive lock of f, 0 if none
    pc,         \* pc[p]: where process p stands
    kind,       \* kind[p]: the operation p runs: "none", "lock", "open", "create"
    batch,      \* batch[p]: the paths of p's operation
    guards,     \* guards[p]: the paths of p's live lock guards, in declaration order
    wrapper,    \* wrapper[p]: p owns a live FdLockWrapper on batch[p][1]
    buf,        \* buf[p]: what p read from the file in its critical section
    exitKind,   \* exitKind[p]: how p's lock scope is ending ("none" while it runs)
    taken,      \* taken[p]: locks acquired by p's current scope
    dropped,    \* dropped[p]: locks released by p's current scope
    blockedBy,  \* blockedBy[p]: the holder found by create_file_lock at its call
                \*   (0: none, -1: that holder has released since)
    cpath,      \* classifier world: the raw path text
    cconf,      \* classifier world: the config_file_parent_path of the instances
    cres,       \* classifier world: the policies' answers, once asked
    target,     \* merge world: the student's workspace tree
    before,     \* merge world: the workspace tree as it was before the merge
    update,     \* merge world: the incoming update tree
    plan,       \* merge world: the entries still to be copied
    mpc,        \* merge world: the phase of the merge
    fs,         \* copy world: what the filesystem has at each path
    fs0,        \* copy world: the filesystem as it was when copy was called
    csource,    \* copy world: the source argument of copy
    ctarget,    \* copy world: the target argument of copy
    walk,       \* copy world: the entries WalkDir has still to yield, next first
    copied,     \* copy world: the entries whose loop body has succeeded
    cret        \* copy world: the result of copy, once it has returned

lockVars == <<exists, content, flock, pc, kind, batch, guards, wrapper, buf,
              exitKind, taken, dropped, blockedBy>>
classVars == <<cpath, cconf, cres>>
mergeVars == <<target, before, update, plan, mpc>>
copyVars == <<fs, fs0, csource, ctarget, walk, copied, cret>>
vars == <<lockVars, classVars, mergeVars, copyVars>>

\* ------------------------------------------------------------- helpers

Range(s) == {s[i] : i \in 1..Len(s)}

Last(s) == s[Len(s)]

Front(s) == SubSeq(s, 1, Len(s) - 1)

IsPrefix(s, t) == Len(s) <= Len(t) /\ s = SubSeq(t, 1, Len(s))

\* The paths whose OS lock process p holds.
HeldBy(p) == {f \in Paths : flock[f] = p}

\* The path of p's open_file_lock / create_file_lock call, and the file a
\* lock!(..) body works on.
Path(p) == batch[p][1]

\* The path the next repetition of lock!(..) is about.
NextPath(p) == batch[p][Len(guards[p]) + 1]

\* ------------------------------------------------- the OS lock (fd_lock)

\* FdLock::lock() as create_file_lock calls it: a blocking exclusive lock of
\* the open file; it returns only once no one else holds the file's lock.
FdLockAcquire(p, f) ==
    /\ flock[f] = 0
    /\ flock' = [flock EXCEPT ![f] = p]

\* Dropping the guard (or closing the locked file) releases the OS lock.  The
\* release is noted for every create_file_lock call that found p holding f.
FdLockRelease(p, f) ==
    /\ flock' = [flock EXCEPT ![f] = 0]
    /\ blockedBy' = [q \in Procs |->
                        IF blockedBy[q] = p /\ kind[q] = "create" /\ Path(q) = f
                        THEN -1 ELSE blockedBy[q]]

\* --------------------------------------------------------------- FileLock

\* FileLock::new(path): opens the file at path; Ok iff a file is there.
FileLock_new(f) == exists[f]

\* A lock() that gives up instead of waiting: it returns whether or not the
\* lock was obtained.
FileLock_lock_Try(p, f) ==
    flock' = [flock EXCEPT ![f] = IF flock[f] = 0 THEN p ELSE @]

\* FileLock::lock(): blocking and exclusive, with no timeout; it returns a
\* guard once no other holder is left.
FileLock_lock(p, f) == FdLockAcquire(p, f)

\* ------------------------------------------------------ lock!(p1, .., pn)

\* A scope invokes lock!(b[1], .., b[n]).
StartLock(p, b) ==
    /\ pc[p] = "idle"
    /\ pc' = [pc EXCEPT ![p] = "new"]
    /\ kind' = [kind EXCEPT ![p] = "lock"]
    /\ batch' = [batch EXCEPT ![p] = b]
    /\ UNCHANGED <<exists, content, flock, guards, wrapper, buf, exitKind,
                   taken, dropped, blockedBy, classVars, mergeVars, copyVars>>

\* FileLock::new(path)?: opens the file; a missing file is an error, which ?
\* returns from the enclosing function, ending the scope.
FileLockNew(p) ==
    /\ pc[p] = "new"
    /\ IF FileLock_new(NextPath(p))
       THEN /\ pc' = [pc EXCEPT ![p] = "lock"]
            /\ UNCHANGED exitKind
       ELSE /\ pc' = [pc EXCEPT ![p] = "exit"]
            /\ exitKind' = [exitKind EXCEPT ![p] = "acquire"]
    /\ UNCHANGED <<exists, content, flock, kind, batch, guards, wrapper, buf,
                   taken, dropped, blockedBy, classVars, mergeVars, copyVars>>

\* The macro line written as  let _ = fl.lock()?;  the guard is not bound to
\* a local and is dropped, and the lock released, as soon as it is returned.
FileLockLock_Unbound(p) ==
    /\ pc[p] = "lock"
    /\ flock[NextPath(p)] = 0
    /\ guards' = [guards EXCEPT ![p] = Append(@, NextPath(p))]
    /\ taken' = [taken EXCEPT ![p] = @ + 1]
    /\ pc' = [pc EXCEPT ![p] = IF Len(guards[p]) + 1 = Len(batch[p])
                                THEN "body" ELSE "new"]
    /\ UNCHANGED <<exists, content, flock, kind, batch, wrapper, buf, exitKind,
                   dropped, blockedBy, classVars, mergeVars, copyVars>>

\* let _lock = fl.lock()?: blocks until the path's lock is free, then holds it.
\* The guard is a local of the enclosing scope: it lives on while the macro
\* goes on to its next path.
FileLockLock(p) ==
    /\ pc[p] = "lock"
    /\ FileLock_lock(p, NextPath(p))
    /\ guards' = [guards EXCEPT ![p] = Append(@, NextPath(p))]
    /\ taken' = [taken EXCEPT ![p] = @ + 1]
    /\ pc' = [pc EXCEPT ![p] = IF Len(guards[p]) + 1 = Len(batch[p])
                                THEN "body" ELSE "new"]
    /\ UNCHANGED <<exists, content, kind, batch, wrapper, buf, exitKind,
                   dropped, blockedBy, classVars, mergeVars, copyVars>>

\* The critical section reads the file ...
BodyRead(p) ==
    /\ pc[p] = "body"
    /\ buf' = [buf EXCEPT ![p] = content[Path(p)]]
    /\ pc' = [pc EXCEPT ![p] = "read"]
    /\ UNCHANGED <<exists, content, flock, kind, batch, guards, wrapper,
                   exitKind, taken, dropped, blockedBy, classVars, mergeVars, copyVars>>

\* ... and writes back what it read with its own line appended.
BodyWrite(p) ==
    /\ pc[p] = "read"
    /\ content' = [content EXCEPT ![Path(p)] = Append(buf[p], p)]
    /\ buf' = [buf EXCEPT ![p] = <<>>]
    /\ pc' = [pc EXCEPT ![p] = "wrote"]
    /\ UNCHANGED <<exists, flock, kind, batch, guards, wrapper, exitKind,
                   taken, dropped, blockedBy, classVars, mergeVars, copyVars>>

\* The body ends, in one of the ways a Rust scope can be left.
BodyExit(p, how) ==
    /\ pc[p] \in {"body", "wrote"}
    /\ pc' = [pc EXCEPT ![p] = "exit"]
    /\ exitKind' = [exitKind EXCEPT ![p] = how]
    /\ UNCHANGED <<exists, content, flock, kind, batch, guards, wrapper, buf,
                   taken, dropped, blockedBy, classVars, mergeVars, copyVars>>

\* A scope that releases by hand at its end only: a ? that leaves it early
\* forgets the guards it holds.
DropGuard_LeakOnError(p) ==
    /\ pc[p] = "exit"
    /\ guards[p] # <<>>
    /\ IF exitKind[p] = "acquire"
       THEN UNCHANGED <<flock, blockedBy>>
       ELSE FdLockRelease(p, Last(guards[p]))
    /\ guards' = [guards EXCEPT ![p] = Front(@)]
    /\ dropped' = [dropped EXCEPT ![p] = @ + 1]
    /\ UNCHANGED <<exists, content, pc, kind, batch, wrapper, buf, exitKind,
                   taken, classVars, mergeVars, copyVars>>

\* Locals dropped in order of declaration: the first lock is released first.
DropGuard_Fifo(p) ==
    /\ pc[p] = "exit"
    /\ guards[p] # <<>>
    /\ FdLockRelease(p, Head(guards[p]))
    /\ guards' = [guards EXCEPT ![p] = Tail(@)]
    /\ dropped' = [dropped EXCEPT ![p] = @ + 1]
    /\ UNCHANGED <<exists, content, pc, kind, batch, wrapper, buf, exitKind,
                   taken, classVars, mergeVars, copyVars>>

\* Leaving the scope drops its locals in reverse order of declaration: the
\* guard declared last is dropped first, and its lock released.
DropGuard(p) ==
    /\ pc[p] = "exit"
    /\ guards[p] # <<>>
    /\ FdLockRelease(p, Last(guards[p]))
    /\ guards' = [guards EXCEPT ![p] = Front(@)]
    /\ dropped' = [dropped EXCEPT ![p] = @ + 1]
    /\ UNCHANGED <<exists, content, pc, kind, batch, wrapper, buf, exitKind,
                   taken, classVars, mergeVars, copyVars>>

\* Every local is dropped: the scope has been left.
ScopeEnd(p) ==
    /\ pc[p] = "exit"
    /\ guards[p] = <<>>
    /\ pc' = [pc EXCEPT ![p] = "done"]
    /\ UNCHANGED <<exists, content, flock, kind, batch, guards, wrapper, buf,
                   exitKind, taken, dropped, blockedBy, classVars, mergeVars, copyVars>>

\* The process goes on to whatever it does next.
Return(p) ==
    /\ pc[p] = "done"
    /\ pc' = [pc EXCEPT ![p] = "idle"]
    /\ kind' = [kind EXCEPT ![p] = "none"]
    /\ batch' = [batch EXCEPT ![p] = <<>>]
    /\ exitKind' = [exitKind EXCEPT ![p] = "none"]
    /\ taken' = [taken EXCEPT ![p] = 0]
    /\ dropped' = [dropped EXCEPT ![p] = 0]
    /\ UNCHANGED <<exists, content, flock, guards, wrapper, buf, blockedBy,
                   classVars, mergeVars, copyVars>>

\* ------------------------------------------------------- open_file_lock

\* An open that makes the file when there is none.
OpenFileLock_Create(p, f) ==
    /\ pc[p] = "idle"
    /\ exists' = [exists EXCEPT ![f] = TRUE]
    /\ content' = [content EXCEPT ![f] = IF exists[f] THEN @ ELSE <<>>]
    /\ pc' = [pc EXCEPT ![p] = "handle"]
    /\ kind' = [kind EXCEPT ![p] = "open"]
    /\ batch' = [batch EXCEPT ![p] = <<f>>]
    /\ wrapper' = [wrapper EXCEPT ![p] = TRUE]
    /\ UNCHANGED <<flock, guards, buf, exitKind, taken, dropped, blockedBy,
                   classVars, mergeVars, copyVars>>

\* open_file_lock(f): opens the file and wraps it in an FdLock; FdLock::new
\* takes no lock.  A missing file is the error FileOpen(f), returned by the
\* `?` before any wrapper is made.
OpenFileLock(p, f) ==
    /\ pc[p] = "idle"
    /\ kind' = [kind EXCEPT ![p] = "open"]
    /\ batch' = [batch EXCEPT ![p] = <<f>>]
    /\ IF exists[f]
       THEN /\ pc' = [pc EXCEPT ![p] = "handle"]
            /\ wrapper' = [wrapper EXCEPT ![p] = TRUE]
            /\ UNCHANGED exitKind
       ELSE /\ pc' = [pc EXCEPT ![p] = "done"]
            /\ exitKind' = [exitKind EXCEPT ![p] = "FileOpen"]
            /\ UNCHANGED wrapper
    /\ UNCHANGED <<exists, content, flock, guards, buf, taken, dropped,
                   blockedBy, classVars, mergeVars, copyVars>>

\* The FdLockWrapper is dropped: a log line, and the file is closed.
DropWrapper(p) ==
    /\ pc[p] = "handle"
    /\ pc' = [pc EXCEPT ![p] = "idle"]
    /\ kind' = [kind EXCEPT ![p] = "none"]
    /\ batch' = [batch EXCEPT ![p] = <<>>]
    /\ wrapper' = [wrapper EXCEPT ![p] = FALSE]
    /\ blockedBy' = [blockedBy EXCEPT ![p] = 0]
    /\ UNCHANGED <<exists, content, flock, guards, buf, exitKind, taken,
                   dropped, classVars, mergeVars, copyVars>>

\* ----------------------------------------------------- create_file_lock

\* create_file_lock(f), its first statement: if let Ok(existing) = open_file(f).
CreateFileLockOpen(p, f) ==
    /\ pc[p] = "idle"
    /\ kind' = [kind EXCEPT ![p] = "create"]
    /\ batch' = [batch EXCEPT ![p] = <<f>>]
    /\ IF exists[f]
       THEN /\ pc' = [pc EXCEPT ![p] = "wait"]
            /\ blockedBy' = [blockedBy EXCEPT ![p] = flock[f]]
       ELSE /\ pc' = [pc EXCEPT ![p] = "create"]
            /\ UNCHANGED blockedBy
    /\ UNCHANGED <<exists, content, flock, guards, wrapper, buf, exitKind,
                   taken, dropped, classVars, mergeVars, copyVars>>

\* try_lock() in place of lock(): when the file is locked the call goes on to
\* create_file without having waited.
CreateFileLockWait_Try(p) ==
    /\ pc[p] = "wait"
    /\ IF flock[Path(p)] = 0
       THEN /\ flock' = [flock EXCEPT ![Path(p)] = p]
            /\ pc' = [pc EXCEPT ![p] = "unlock"]
       ELSE /\ UNCHANGED flock
            /\ pc' = [pc EXCEPT ![p] = "create"]
    /\ UNCHANGED <<exists, content, kind, batch, guards, wrapper, buf,
                   exitKind, taken, dropped, blockedBy, classVars, mergeVars, copyVars>>

\* lock.lock().expect(..): blocks until the existing file's lock is free and
\* takes it.
CreateFileLockWait(p) ==
    /\ pc[p] = "wait"
    /\ FdLockAcquire(p, Path(p))
    /\ pc' = [pc EXCEPT ![p] = "unlock"]
    /\ UNCHANGED <<exists, content, kind, batch, guards, wrapper, buf,
                   exitKind, taken, dropped, blockedBy, classVars, mergeVars, copyVars>>

\* The guard returned by lock() is a temporary of that statement and is dropped
\* at its end; the FdLock and its file are dropped at the end of the if block.
\* Either way the lock is released before create_file is called.
CreateFileLockUnlock(p) ==
    /\ pc[p] = "unlock"
    /\ FdLockRelease(p, Path(p))
    /\ pc' = [pc EXCEPT ![p] = "create"]
    /\ UNCHANGED <<exists, content, kind, batch, guards, wrapper, buf,
                   exitKind, taken, dropped, classVars, mergeVars, copyVars>>

\* create_file(f): File::create creates the file or truncates the existing one;
\* the new File is wrapped in an FdLock (no lock is taken) and returned.
CreateFileLockCreate(p) ==
    /\ pc[p] = "create"
    /\ exists' = [exists EXCEPT ![Path(p)] = TRUE]
    /\ content' = [content EXCEPT ![Path(p)] = <<>>]
    /\ wrapper' = [wrapper EXCEPT ![p] = TRUE]
    /\ pc' = [pc EXCEPT ![p] = "handle"]
    /\ UNCHANGED <<flock, kind, batch, guards, buf, exitKind, taken, dropped,
                   blockedBy, classVars, mergeVars, copyVars>>

\* ------------------------------------------------------ specifications

ClassIdle ==
    /\ cpath = <<>>
    /\ cconf = <<>>
    /\ cres = [asked |-> FALSE, ant |-> FALSE, make |-> FALSE]

MergeIdle ==
    /\ target = <<>>
    /\ before = <<>>
    /\ update = <<>>
    /\ plan = {}
    /\ mpc = "off"

\* No copy is under way.
NoResult == [state |-> "none"]

CopyIdle ==
    /\ fs = <<>>
    /\ fs0 = <<>>
    /\ csource = <<>>
    /\ ctarget = <<>>
    /\ walk = <<>>
    /\ copied = {}
    /\ cret = NoResult

\* The processes are idle and no lock is held.
ProcsIdle ==
    /\ flock = [f \in Paths |-> 0]
    /\ pc = [p \in Procs |-> "idle"]
    /\ kind = [p \in Procs |-> "none"]
    /\ batch = [p \in Procs |-> <<>>]
    /\ guards = [p \in Procs |-> <<>>]
    /\ wrapper = [p \in Procs |-> FALSE]
    /\ buf = [p \in Procs |-> <<>>]
    /\ exitKind = [p \in Procs |-> "none"]
    /\ taken = [p \in Procs |-> 0]
    /\ dropped = [p \in Procs |-> 0]
    /\ blockedBy = [p \in Procs |-> 0]

\* Each path may or may not hold a file already, with one line (written by no
\* process of the model) in it.
LockInit ==
    /\ exists \in [Paths -> BOOLEAN]
    /\ content = [f \in Paths |-> IF exists[f] THEN <<0>> ELSE <<>>]
    /\ ProcsIdle

Init ==
    /\ LockInit
    /\ ClassIdle
    /\ MergeIdle
    /\ CopyIdle

Next ==
    \E p \in Procs :
        \/ \E b \in Batches : StartLock(p, b)
        \/ FileLockNew(p)
        \/ FileLockLock(p)
        \/ \E how \in BodyExits : BodyExit(p, how)
        \/ DropGuard(p)
        \/ ScopeEnd(p)
        \/ Return(p)
        \/ \E f \in Paths : OpenFileLock(p, f)
        \/ DropWrapper(p)
        \/ \E f \in Paths : CreateFileLockOpen(p, f)
        \/ CreateFileLockWait(p)
        \/ CreateFileLockUnlock(p)
        \/ CreateFileLockCreate(p)

Spec == Init /\ [][Next]_vars

\* ---------------------------------------- workers appending to one file

\* One file exists, empty; every process is a worker that has not run yet.
AppendInit ==
    /\ \E shared \in Paths : exists = [f \in Paths |-> f = shared]
    /\ content = [f \in Paths |-> <<>>]
    /\ ProcsIdle
    /\ ClassIdle
    /\ MergeIdle
    /\ CopyIdle

\* A worker enters its critical section on the shared file: lock!(shared).
WorkerStart(p) ==
    \E f \in Paths :
        /\ exists[f]
        /\ StartLock(p, <<f>>)

\* The worker's scope ends once its line is written.
WorkerExit(p) ==
    /\ pc[p] = "wrote"
    /\ BodyExit(p, "return")

AppendNext ==
    \E p \in Procs :
        \/ WorkerStart(p)
        \/ FileLockNew(p)
        \/ FileLockLock(p)
        \/ BodyRead(p)
        \/ BodyWrite(p)
        \/ WorkerExit(p)
        \/ DropGuard(p)
        \/ ScopeEnd(p)

SpecAppend == AppendInit /\ [][AppendNext]_vars

\* ------------------------------------------- lock scopes, run for ever

LiveNext ==
    \E p \in Procs :
        \/ \E f \in Paths : StartLock(p, <<f>>)
        \/ FileLockNew(p)
        \/ FileLockLock(p)
        \/ \E how \in BodyExits : BodyExit(p, how)
        \/ DropGuard(p)
        \/ ScopeEnd(p)
        \/ Return(p)

\* A scope that holds its lock runs on to its end (the critical sections
\* terminate, and leaving a scope runs its drops), and a waiter that the lock
\* is free for again and again is granted it.
LiveFairness ==
    \A p \in Procs :
        /\ WF_vars(\E how \in BodyExits : BodyExit(p, how))
        /\ WF_vars(DropGuard(p))
        /\ WF_vars(ScopeEnd(p))
        /\ WF_vars(FileLockNew(p))
        /\ SF_vars(FileLockLock(p))

SpecLive == Init /\ [][LiveNext]_vars /\ LiveFairness

\* --------------------------------------- batches in one order, for ever

\* Batches of callers that do not agree on an order.
OrderedBatches_AnyOrder == Batches

\* The batches of callers that list the paths they share in one order: "f"
\* before "g".
OrderedBatches == Batches \ {<<"g", "f">>}

\* Both files are there to be locked.
OrderedInit ==
    /\ exists = [f \in Paths |-> TRUE]
    /\ content = [f \in Paths |-> <<0>>]
    /\ ProcsIdle
    /\ ClassIdle
    /\ MergeIdle
    /\ CopyIdle

OrderedNext ==
    \E p \in Procs :
        \/ \E b \in OrderedBatches : StartLock(p, b)
        \/ FileLockNew(p)
        \/ FileLockLock(p)
        \/ \E how \in BodyExits : BodyExit(p, how)
        \/ DropGuard(p)
        \/ ScopeEnd(p)
        \/ Return(p)

SpecOrdered == OrderedInit /\ [][OrderedNext]_vars /\ LiveFairness

\* ------------------------------------------------- student file policies

\* The characters path texts are made of.
Chars == {"s", "r", "c", "a", "/", "."}

\* The raw path texts of up to MaxPathLen characters.
PathTexts == UNION {[1..n -> Chars] : n \in 0..MaxPathLen}

\* The literal "src".
SRC == <<"s", "r", "c">>

Min(S) == CHOOSE x \in S : \A y \in S : x <= y

\* The positions of the separators of a path text.
Slashes(t) == {i \in 1..Len(t) : t[i] = "/"}

\* The text cut at its separators, empty pieces included.
RECURSIVE Split(_)
Split(t) ==
    IF Slashes(t) = {}
    THEN <<t>>
    ELSE <<SubSeq(t, 1, Min(Slashes(t)) - 1)>>
            \o Split(SubSeq(t, Min(Slashes(t)) + 1, Len(t)))

\* Path::components() (Unix): a leading separator is the root component;
\* empty pieces (repeated or trailing separators) are skipped; "." is skipped
\* except as the first piece of a path without root; ".." is the parent
\* component; everything else is a normal component.
RECURSIVE PieceComponents(_, _, _)
PieceComponents(pieces, k, hasRoot) ==
    IF k > Len(pieces)
    THEN <<>>
    ELSE LET piece == pieces[k]
             rest == PieceComponents(pieces, k + 1, hasRoot)
         IN  IF piece = <<>>
             THEN rest
             ELSE IF piece = <<".">>
             THEN IF k = 1 /\ ~hasRoot
                  THEN <<[type |-> "CurDir", name |-> piece]>> \o rest
                  ELSE rest
             ELSE IF piece = <<".", ".">>
             THEN <<[type |-> "ParentDir", name |-> piece]>> \o rest
             ELSE <<[type |-> "Normal", name |-> piece]>> \o rest

Components(t) ==
    LET hasRoot == t # <<>> /\ t[1] = "/"
    IN  (IF hasRoot THEN <<[type |-> "RootDir", name |-> <<"/">>]>> ELSE <<>>)
            \o PieceComponents(Split(t), 1, hasRoot)

\* Path::starts_with(base): the components of base are the first components
\* of the path, compared whole.
PathStartsWith(t, base) == IsPrefix(Components(base), Components(t))

\* Path::ends_with(child): the components of child are the last ones.
PathEndsWith(t, child) ==
    LET ct == Components(t)
        cc == Components(child)
    IN  Len(cc) <= Len(ct) /\ cc = SubSeq(ct, Len(ct) - Len(cc) + 1, Len(ct))

\* The rule written as a prefix match on the raw text.
AntIsStudentSourceFile_TextPrefix(conf, t) == IsPrefix(SRC, t)

\* The rule written with ends_with in place of starts_with.
AntIsStudentSourceFile_EndsWith(conf, t) == PathEndsWith(t, SRC)

\* AntStudentFilePolicy::is_student_source_file: path.starts_with("src"); the
\* instance (its config_file_parent_path) is not consulted.
AntIsStudentSourceFile(conf, t) == PathStartsWith(t, SRC)

\* A rule that looks under the configured directory when there is one.
MakeIsStudentSourceFile_UnderConfig(conf, t) ==
    IF conf = <<>> THEN PathStartsWith(t, SRC) ELSE PathStartsWith(t, conf)

\* MakeStudentFilePolicy::is_student_source_file: path.starts_with("src").
MakeIsStudentSourceFile(conf, t) == PathStartsWith(t, SRC)

\* No policy has been asked yet.
NotAsked == [asked |-> FALSE, ant |-> FALSE, make |-> FALSE]

\* The config_file_parent_path values the policies are constructed with.
Configs == {<<>>, <<"a">>}

ClassInit ==
    /\ cpath \in PathTexts
    /\ cconf \in Configs
    /\ cres = NotAsked
    /\ exists = [f \in Paths |-> FALSE]
    /\ content = [f \in Paths |-> <<>>]
    /\ ProcsIdle
    /\ MergeIdle
    /\ CopyIdle

\* Both policies are asked about the path.
Classify ==
    /\ ~cres.asked
    /\ cres' = [asked |-> TRUE,
                ant |-> AntIsStudentSourceFile(cconf, cpath),
                make |-> MakeIsStudentSourceFile(cconf, cpath)]
    /\ UNCHANGED <<cpath, cconf, lockVars, mergeVars, copyVars>>

ClassNext == Classify

SpecClassify == ClassInit /\ [][ClassNext]_vars

\* Callers that ask about one path again and again: each call is made to an
\* instance of either policy, constructed with any config_file_parent_path.
RepeatInit ==
    /\ cpath \in PathTexts
    /\ cconf = <<>>
    /\ cres = <<>>
    /\ exists = [f \in Paths |-> FALSE]
    /\ content = [f \in Paths |-> <<>>]
    /\ ProcsIdle
    /\ MergeIdle
    /\ CopyIdle

AskAnt(conf) ==
    /\ Len(cres) < MaxCalls
    /\ cres' = Append(cres, [policy |-> "ant", conf |-> conf,
                             answer |-> AntIsStudentSourceFile(conf, cpath)])
    /\ UNCHANGED <<cpath, cconf, lockVars, mergeVars, copyVars>>

AskMake(conf) ==
    /\ Len(cres) < MaxCalls
    /\ cres' = Append(cres, [policy |-> "make", conf |-> conf,
                             answer |-> MakeIsStudentSourceFile(conf, cpath)])
    /\ UNCHANGED <<cpath, cconf, lockVars, mergeVars, copyVars>>

RepeatNext ==
    \E conf \in Configs :
        \/ AskAnt(conf)
        \/ AskMake(conf)

SpecRepeat == RepeatInit /\ [][RepeatNext]_vars

\* ------------------------------------------------ copy and the merge

\* The names of the entries of the trees.
Segs == {SRC, <<"a">>}

\* The entries of an update, as paths relative to its root: one or two
\* segments.
UpdatePaths == UNION {[1..k -> Segs] : k \in 1..2}

\* The entries of the workspace, relative to its root: up to three segments.
TargetPaths == UNION {[1..k -> Segs] : k \in 1..3}

\* What a tree has at a path: nothing, a directory, or a file with the
\* student's ("mine") or the update's ("template") content, or with no
\* content at all ("empty").
IsFile(x) == x \in {"mine", "template", "empty"}

\* A tree has an entry only inside a directory.
WellFormed(t) ==
    \A e \in DOMAIN t : (Len(e) > 1 /\ t[e] # "absent") => t[Front(e)] = "dir"

\* The trees of up to two levels whose files have content c.
Trees(c) == {t \in [UpdatePaths -> {"absent", "dir", c}] : WellFormed(t)}

\* A tree of two levels as a workspace.
AsTarget(t) ==
    [e \in TargetPaths |-> IF e \in UpdatePaths THEN t[e] ELSE "absent"]

\* A relative path as text: its segments joined by the separator.
RECURSIVE PathText(_)
PathText(e) ==
    IF Len(e) = 0 THEN <<>>
    ELSE IF Len(e) = 1 THEN e[1]
    ELSE e[1] \o <<"/">> \o PathText(Tail(e))

\* The classification of a workspace entry by the plugin's policy.
IsStudent(e) == AntIsStudentSourceFile(cconf, PathText(e))

\* fs::create_dir_all(e): makes e and its missing ancestors directories; it
\* fails, changing nothing, when e or an ancestor is a file.
CreateDirAll(t, e) ==
    LET ancestors == {SubSeq(e, 1, k) : k \in 1..Len(e)}
    IN  IF \E a \in ancestors : IsFile(t[a])
        THEN [ok |-> FALSE, tree |-> t]
        ELSE [ok |-> TRUE,
              tree |-> [x \in DOMAIN t |-> IF x \in ancestors THEN "dir" ELSE t[x]]]

\* std::fs::copy(source, d): writes the file d, new or overwritten; it fails
\* when d is a directory or is not inside a directory.
FsCopy(t, c, d) ==
    IF t[d] = "dir" \/ (Len(d) > 1 /\ t[Front(d)] # "dir")
    THEN [ok |-> FALSE, tree |-> t]
    ELSE [ok |-> TRUE, tree |-> [t EXCEPT ![d] = c]]

\* copy(source, target) for a source file with content c, named as the last
\* segment of e, and the target path e of the workspace: into the directory
\* when e is one, else to e itself after making its missing parent.
CopyFile(t, c, e) ==
    IF t[e] = "dir"
    THEN FsCopy(t, c, e \o <<Last(e)>>)
    ELSE IF Len(e) > 1 /\ t[Front(e)] = "absent"
         THEN LET made == CreateDirAll(t, Front(e))
              IN  IF made.ok THEN FsCopy(made.tree, c, e) ELSE made
         ELSE FsCopy(t, c, e)

MergeInit ==
    /\ \E t \in Trees("mine") : target = AsTarget(t)
    /\ before = target
    /\ update \in Trees("template")
    /\ plan = {}
    /\ mpc = "start"
    /\ cpath = <<>>
    /\ cconf = <<>>
    /\ cres = NotAsked
    /\ exists = [f \in Paths |-> FALSE]
    /\ content = [f \in Paths |-> <<>>]
    /\ ProcsIdle
    /\ CopyIdle

\* The caller's pre-pass: the entries the update would touch, less those that
\* exist in the workspace and are the student's.
MergePlan ==
    /\ mpc = "start"
    /\ plan' = {e \in UpdatePaths :
                  /\ update[e] # "absent"
                  /\ ~(target[e] # "absent" /\ IsStudent(e))}
    /\ mpc' = "run"
    /\ UNCHANGED <<target, before, update, lockVars, classVars, copyVars>>

\* One planned entry is carried out: a directory is created, a file copied.
\* The first failure ends the merge.
MergeEntry(e) ==
    /\ mpc = "run"
    /\ e \in plan
    /\ LET did == IF update[e] = "dir"
                  THEN CreateDirAll(target, e)
                  ELSE CopyFile(target, update[e], e)
       IN  /\ target' = did.tree
           /\ mpc' = IF did.ok THEN "run" ELSE "failed"
    /\ plan' = plan \ {e}
    /\ UNCHANGED <<before, update, lockVars, classVars, copyVars>>

\* Nothing is left to do.
MergeEnd ==
    /\ mpc = "run"
    /\ plan = {}
    /\ mpc' = "done"
    /\ UNCHANGED <<target, before, update, plan, lockVars, classVars, copyVars>>

MergeNext ==
    \/ MergePlan
    \/ \E e \in UpdatePaths : MergeEntry(e)
    \/ MergeEnd

SpecMerge == MergeInit /\ [][MergeNext]_vars

\* ------------------------------------------------------- copy(source, target)

\* The paths of the filesystem of the copy world, relative to the working
\* directory: up to four segments.
CopyPaths == UNION {[1..k -> Segs] : k \in 1..4}

\* The paths given to copy as source and as target: one or two segments.
ArgPaths == {x \in CopyPaths : Len(x) <= 2}

\* The filesystem before the call is built from at most MaxEntries entries,
\* each a directory or a file, at paths of up to three segments; the
\* ancestors of an entry are directories.
EntryPaths == {x \in CopyPaths : Len(x) <= 3}

NoEntry == [path |-> <<>>, is |-> "absent"]

Entries == [path : EntryPaths, is : {"dir", "mine", "template"}] \cup {NoEntry}

\* A number for each path, to list entries in one order only.
RECURSIVE PathCode(_)
PathCode(x) ==
    IF Len(x) = 0 THEN 0
    ELSE 3 * PathCode(Front(x)) + (IF Last(x) = SRC THEN 1 ELSE 2)

\* The entries are listed by path, the unused places first; no entry lies
\* below a file.
Consistent(L) ==
    \A i, j \in DOMAIN L :
        i < j =>
            /\ L[i] = NoEntry \/ PathCode(L[i].path) < PathCode(L[j].path)
            /\ ~(IsFile(L[i].is) /\ IsPrefix(L[i].path, L[j].path))
            /\ ~(IsFile(L[j].is) /\ IsPrefix(L[j].path, L[i].path))

FsOf(L) ==
    [x \in CopyPaths |->
        IF \E i \in DOMAIN L : L[i].path = x
        THEN (CHOOSE l \in Range(L) : l.path = x).is
        ELSE IF \E i \in DOMAIN L : L[i] # NoEntry /\ IsPrefix(x, L[i].path)
             THEN "dir"
             ELSE "absent"]

\* The entries of tree t at or below path x.
Under(t, x) == {e \in DOMAIN t : IsPrefix(x, e) /\ t[e] # "absent"}

\* The entry's path inside the source, joined to the target.
Dest_InsideSource(e) == ctarget \o SubSeq(e, Len(csource) + 1, Len(e))

\* entry_path.strip_prefix(source.parent()) joined to the target: the entry
\* keeps its path from the source's own name on.
Dest(e) == ctarget \o SubSeq(e, Len(csource), Len(e))

\* std::fs::copy(s, d) of the file at s. On Unix the destination is opened
\* for writing, created or truncated, before anything is read from the
\* source: when both are the same file, that file is left empty ("if from and
\* to both point to the same file, then the file will likely get truncated
\* by this operation", documentation of std::fs::copy). copy compares its
\* two paths nowhere.
StdFsCopy(t, s, d) ==
    IF s = d
    THEN [ok |-> TRUE, tree |-> [t EXCEPT ![d] = "empty"]]
    ELSE FsCopy(t, t[s], d)

Ok(t) == [ok |-> TRUE, tree |-> t, err |-> NoResult]

Err(t, k, ps) ==
    [ok |-> FALSE, tree |-> t,
     err |-> [state |-> "err", kind |-> k, paths |-> ps]]

\* copy of a file that names the copy in a directory after the directory.
CopyFromFile_TargetName(t, s, tg) ==
    IF t[tg] = "dir"
    THEN LET did == StdFsCopy(t, s, tg \o <<Last(tg)>>)
         IN  IF did.ok THEN Ok(did.tree)
             ELSE Err(t, "FileCopy", <<s, tg>>)
    ELSE LET did == StdFsCopy(t, s, tg)
         IN  IF did.ok THEN Ok(did.tree)
             ELSE Err(t, "FileCopy", <<s, tg>>)

\* copy of a file that takes every target for a directory to copy into.
CopyFromFile_IntoTarget(t, s, tg) ==
    LET made == CreateDirAll(t, tg)
    IN  IF ~made.ok THEN Err(t, "DirCreate", <<tg>>)
        ELSE LET did == StdFsCopy(made.tree, s, tg \o <<Last(s)>>)
             IN  IF did.ok THEN Ok(did.tree)
                 ELSE Err(made.tree, "FileCopy", <<s, tg>>)

\* copy for a source s that is a file: into the directory tg under the
\* source's file name, else to tg itself after making its missing parent.
\* A failure of the copy into a directory names the directory as its target.
CopyFromFile(t, s, tg) ==
    IF t[tg] = "dir"
    THEN IF Len(s) = 0
         THEN Err(t, "NoFileName", <<s>>)
         ELSE LET did == StdFsCopy(t, s, tg \o <<Last(s)>>)
              IN  IF did.ok THEN Ok(did.tree)
                  ELSE Err(t, "FileCopy", <<s, tg>>)
    ELSE LET made == IF Len(tg) > 1 /\ t[Front(tg)] = "absent"
                     THEN CreateDirAll(t, Front(tg))
                     ELSE [ok |-> TRUE, tree |-> t]
         IN  IF ~made.ok THEN Err(t, "DirCreate", <<Front(tg)>>)
             ELSE LET did == StdFsCopy(made.tree, s, tg)
                  IN  IF did.ok THEN Ok(did.tree)
                      ELSE Err(made.tree, "FileCopy", <<s, tg>>)

\* A loop body whose failed file copy names the target of the whole call.
CopyWalked_TargetRoot(t, e, d) ==
    IF t[e] = "absent"
    THEN Err(t, "Walk", <<e>>)
    ELSE IF t[e] = "dir"
    THEN LET made == CreateDirAll(t, d)
         IN  IF made.ok THEN Ok(made.tree)
             ELSE Err(t, "DirCreate", <<d>>)
    ELSE LET made == CreateDirAll(t, Front(d))
         IN  IF ~made.ok THEN Err(t, "DirCreate", <<Front(d)>>)
             ELSE LET did == StdFsCopy(made.tree, e, d)
                  IN  IF did.ok THEN Ok(did.tree)
                      ELSE Err(made.tree, "FileCopy", <<e, ctarget>>)

\* The body of copy's loop for the entry e that WalkDir yields, with
\* destination d: a directory is created with its missing ancestors; for a
\* file the parent is created, then the file copied.
CopyWalked(t, e, d) ==
    IF t[e] = "absent"
    THEN Err(t, "Walk", <<e>>)
    ELSE IF t[e] = "dir"
    THEN LET made == CreateDirAll(t, d)
         IN  IF made.ok THEN Ok(made.tree)
             ELSE Err(t, "DirCreate", <<d>>)
    ELSE LET made == CreateDirAll(t, Front(d))
         IN  IF ~made.ok THEN Err(t, "DirCreate", <<Front(d)>>)
             ELSE LET did == StdFsCopy(made.tree, e, d)
                  IN  IF did.ok THEN Ok(did.tree)
                      ELSE Err(made.tree, "FileCopy", <<e, d>>)

\* The entries directly inside directory e.
Children(t, e) ==
    {c \in DOMAIN t : Len(c) = Len(e) + 1 /\ Front(c) = e /\ t[c] # "absent"}

\* The orders in which a directory's entries can be read.
Orders(S) == {o \in [1..Cardinality(S) -> S] : Range(o) = S}

\* copy is called with a source and a target, on a filesystem that may hold
\* anything at either. A target inside the source directory, for which the
\* walk would meet its own output, is left out, and so is a destination
\* deeper than the paths of the model.
CopyInit ==
    /\ \E L \in [1..MaxEntries -> Entries] :
          /\ Consistent(L)
          /\ fs = FsOf(L)
    /\ fs0 = fs
    /\ csource \in ArgPaths
    /\ ctarget \in ArgPaths
    /\ fs[csource] = "dir" => ~IsPrefix(csource, ctarget)
    /\ \A e \in Under(fs, csource) : Dest(e) \in CopyPaths
    /\ walk = <<>>
    /\ copied = {}
    /\ cret = [state |-> "called"]
    /\ cpath = <<>>
    /\ cconf = <<>>
    /\ cres = NotAsked
    /\ exists = [f \in Paths |-> FALSE]
    /\ content = [f \in Paths |-> <<>>]
    /\ ProcsIdle
    /\ MergeIdle

\* copy without the refusal of an existing file as target.
CopyStart_NoRefusal ==
    /\ cret.state = "called"
    /\ IF IsFile(fs[csource])
       THEN LET did == CopyFromFile(fs, csource, ctarget)
            IN  /\ fs' = did.tree
                /\ cret' = IF did.ok THEN [state |-> "ok"] ELSE did.err
                /\ walk' = walk
       ELSE /\ cret' = [state |-> "walk"]
            /\ walk' = <<csource>>
            /\ fs' = fs
    /\ UNCHANGED <<fs0, csource, ctarget, copied, lockVars, classVars,
                   mergeVars>>

\* copy up to its loop: the two branches for a source file run to their end;
\* for any other source, an existing file as target is refused, else the walk
\* begins at the source.
CopyStart ==
    /\ cret.state = "called"
    /\ IF IsFile(fs[csource])
       THEN LET did == CopyFromFile(fs, csource, ctarget)
            IN  /\ fs' = did.tree
                /\ cret' = IF did.ok THEN [state |-> "ok"] ELSE did.err
                /\ walk' = walk
       ELSE IF IsFile(fs[ctarget])
       THEN /\ cret' = [state |-> "err", kind |-> "UnexpectedFile",
                        paths |-> <<ctarget>>]
            /\ UNCHANGED <<fs, walk>>
       ELSE /\ cret' = [state |-> "walk"]
            /\ walk' = <<csource>>
            /\ fs' = fs
    /\ UNCHANGED <<fs0, csource, ctarget, copied, lockVars, classVars,
                   mergeVars>>

\* One turn of the loop: WalkDir yields the next entry, depth first, and the
\* entries of a directory in any order; the first failure returns.
CopyEntry ==
    /\ cret.state = "walk"
    /\ walk # <<>>
    /\ LET e == Head(walk)
           did == CopyWalked(fs, e, Dest(e))
       IN  /\ fs' = did.tree
           /\ IF did.ok
              THEN /\ cret' = cret
                   /\ copied' = copied \cup {e}
                   /\ \E o \in Orders(Children(did.tree, e)) :
                         walk' = o \o Tail(walk)
              ELSE /\ cret' = did.err
                   /\ UNCHANGED <<copied, walk>>
    /\ UNCHANGED <<fs0, csource, ctarget, lockVars, classVars, mergeVars>>

\* The walk is over: Ok(()).
CopyEnd ==
    /\ cret.state = "walk"
    /\ walk = <<>>
    /\ cret' = [state |-> "ok"]
    /\ UNCHANGED <<fs, fs0, csource, ctarget, walk, copied, lockVars,
                   classVars, mergeVars>>

CopyNext ==
    \/ CopyStart
    \/ CopyEntry
    \/ CopyEnd

SpecCopy == CopyInit /\ [][CopyNext]_vars

\* ================================================================ claims

\* The live lock handles of the code: a guard of a lock!(..) scope, the OS
\* lock itself, or an FdLockWrapper returned by open_file_lock or
\* create_file_lock.
HoldsHandle(p, f) ==
    \/ flock[f] = p
    \/ f \in Range(guards[p])
    \/ wrapper[p] /\ Path(p) = f

\* Process q's create_file_lock is doing its create/truncate step.
Truncates(q) == pc[q] = "create" /\ pc'[q] = "handle"

\* C1 (as claimed): create_file_lock's create/truncate step never runs while
\* another process holds the lock of the file at that path, and while a
\* process holds the lock the content stays as it is unless the holder itself
\* takes the step.
C1_NoTruncateUnderLock ==
    [][/\ \A q \in Procs : Truncates(q) => flock[Path(q)] \in {0, q}
       /\ \A f \in Paths : \A h \in Procs :
            (flock[f] = h /\ flock'[f] = h /\ pc'[h] = pc[h])
                => content'[f] = content[f]]_vars

\* C2 (as claimed): for every path at most one process holds a live lock
\* handle on it.
C2_MutualExclusion ==
    \A f \in Paths : Cardinality({p \in Procs : HoldsHandle(p, f)}) <= 1

\* C4: when create_file_lock(path) found a file at path whose lock another
\* process held at the call, that holder has released the lock before the call
\* gets past its wait, so before it truncates the file or returns.
C4_ReplaceAfterRelease ==
    \A q \in Procs :
        (kind[q] = "create" /\ pc[q] \in {"unlock", "create", "handle"})
            => blockedBy[q] \in {0, -1}

\* C4's case: a create_file_lock call that found the lock held has returned.
C4_Witness ==
    \E q \in Procs :
        pc[q] = "handle" /\ kind[q] = "create" /\ blockedBy[q] = -1

\* C5 (as claimed): the handle create_file_lock returns holds the exclusive
\* lock of the file at its path for as long as it lives.
C5_ReplaceHandleHoldsLock ==
    \A q \in Procs :
        (pc[q] = "handle" /\ kind[q] = "create") => flock[Path(q)] = q

\* C6: a lock!(..) scope releases every lock it acquired exactly once on every
\* way out: while it runs the locks it holds are those of its live guards,
\* each acquired lock is either still guarded or was dropped once, and once the
\* scope is left it holds nothing.
C6_ReleasedAtScopeExit ==
    \A p \in Procs :
        /\ kind[p] = "lock" =>
              /\ HeldBy(p) = Range(guards[p])
              /\ Cardinality(HeldBy(p)) = Len(guards[p])
              /\ taken[p] = dropped[p] + Len(guards[p])
        /\ pc[p] \in {"done", "idle"} =>
              /\ HeldBy(p) = {}
              /\ guards[p] = <<>>
              /\ taken[p] = dropped[p]

\* C6's case: a scope left by the ? of a later path's failed acquisition, after
\* it had acquired a lock.
C6_Witness ==
    \E p \in Procs :
        pc[p] = "done" /\ exitKind[p] = "acquire" /\ taken[p] = 1

\* C7: lock!(p1, .., pn) acquires in list order, keeps every lock it acquired
\* until the scope ends, and releases in reverse order: the held locks are at
\* all times those of a prefix of the list, and the whole list in the body.
C7_BatchOrder ==
    \A p \in Procs :
        kind[p] = "lock" =>
            /\ IsPrefix(guards[p], batch[p])
            /\ HeldBy(p) = Range(guards[p])
            /\ pc[p] = "body" => guards[p] = batch[p]

\* C7's case: a scope of two locks that has ended and released its last lock,
\* holding the first still.
C7_Witness ==
    \E p \in Procs :
        /\ pc[p] = "exit"
        /\ exitKind[p] \in BodyExits
        /\ Len(batch[p]) = 2
        /\ Len(guards[p]) = 1
        /\ taken[p] = 2

\* The workers whose line has been written.
Wrote == {p \in Procs : pc[p] \in {"wrote", "exit", "done"}}

\* C8: workers that each append one line to the shared file inside lock!(file)
\* lose no update: the file holds exactly the lines of the workers that have
\* written, each once, so exactly NumProcs lines when all are done.
C8_NoLostUpdates ==
    \A f \in Paths :
        exists[f] =>
            /\ Len(content[f]) = Cardinality(Wrote)
            /\ \A p \in Wrote :
                 Cardinality({i \in 1..Len(content[f]) : content[f][i] = p}) = 1

\* C8's case: every worker has run and the file has one line for each.
C8_Witness ==
    /\ \A p \in Procs : pc[p] = "done"
    /\ \E f \in Paths : exists[f] /\ Len(content[f]) = NumProcs

IsRelative(t) == t = <<>> \/ t[1] # "/"

\* The first segment of a relative path's text: what stands before its first
\* separator.
FirstSegment(t) ==
    IF Slashes(t) = {} THEN t ELSE SubSeq(t, 1, Min(Slashes(t)) - 1)

\* C10: for every relative path, either policy answers true exactly when the
\* path's first segment is, as a whole, "src".
C10_FirstSegmentIsSrc ==
    (cres.asked /\ IsRelative(cpath)) =>
        /\ cres.ant = (FirstSegment(cpath) = SRC)
        /\ cres.make = (FirstSegment(cpath) = SRC)

\* C10's case: a path whose text starts with "src" but whose first segment is
\* longer ("srca") was answered false.
C10_Witness ==
    /\ cres.asked
    /\ cpath = <<"s", "r", "c", "a">>
    /\ cres.ant = FALSE
    /\ cres.make = FALSE

\* An entry of the student's (its first segment is "src") that was in the
\* workspace before the merge.
StudentOwned(e) == before[e] # "absent" /\ e[1] = SRC

\* C3: the policy-guided merge keeps the student's work: no planned action is
\* about an entry of the student's that exists in the workspace, and every
\* such entry is, during and after the merge, what it was before.
C3_StudentWorkPreserved ==
    /\ \A e \in plan : ~StudentOwned(e)
    /\ \A e \in TargetPaths : StudentOwned(e) => target[e] = before[e]

\* C3's case: a merge has ended that copied template content somewhere and met
\* a file of the student's that the update holds too, with other content.
C3_Witness ==
    /\ mpc = "done"
    /\ \E e \in UpdatePaths :
         /\ StudentOwned(e)
         /\ before[e] = "mine"
         /\ update[e] = "template"
         /\ target[e] = "mine"
    /\ \E e \in TargetPaths : target[e] = "template"

\* The place the contract gives entry e of the source directory: the target,
\* then the source's own name, then e's path inside the source.
AtTarget(e) ==
    ctarget \o <<Last(csource)>> \o SubSeq(e, Len(csource) + 1, Len(e))

\* C11 as stated: after a successful copy of a directory, every entry that
\* was under the source (the source included) is at its place under the
\* target: a file with content identical to the entry's, a directory as a
\* directory, an empty directory as an empty directory, and every directory
\* on the way there exists.
C11_TreeCopied ==
    (cret.state = "ok" /\ fs0[csource] = "dir") =>
        \A e \in Under(fs0, csource) :
            /\ IsFile(fs0[e]) => fs[AtTarget(e)] = fs[e]
            /\ fs0[e] = "dir" => fs[AtTarget(e)] = "dir"
            /\ (fs0[e] = "dir" /\ Children(fs0, e) = {}) =>
                   Children(fs, AtTarget(e)) = {}
            /\ \A k \in 1..(Len(AtTarget(e)) - 1) :
                   fs[SubSeq(AtTarget(e), 1, k)] = "dir"

\* C11 amended: as above, but the directory that an empty source directory
\* yields holds whatever the target already had at that place, and nothing
\* else.
C11_TreeMerged ==
    (cret.state = "ok" /\ fs0[csource] = "dir") =>
        \A e \in Under(fs0, csource) :
            /\ IsFile(fs0[e]) =>
                   (IsFile(fs[AtTarget(e)]) /\ fs[AtTarget(e)] = fs[e])
            /\ fs0[e] = "dir" => fs[AtTarget(e)] = "dir"
            /\ (fs0[e] = "dir" /\ Children(fs0, e) = {}) =>
                   Children(fs, AtTarget(e)) = Children(fs0, AtTarget(e))
            /\ \A k \in 1..(Len(AtTarget(e)) - 1) :
                   fs[SubSeq(AtTarget(e), 1, k)] = "dir"

\* A directory holding a file and an empty directory has been copied to a
\* target that did not exist.
C11_Witness ==
    /\ cret.state = "ok"
    /\ fs0[csource] = "dir"
    /\ fs0[ctarget] = "absent"
    /\ \E e, d \in Under(fs0, csource) :
          /\ IsFile(fs0[e])
          /\ fs[AtTarget(e)] = fs0[e]
          /\ d # csource
          /\ fs0[d] = "dir"
          /\ Children(fs, AtTarget(d)) = {}

\* C12: copy of a directory onto an existing regular file returns
\* UnexpectedFile with the target's path and changes nothing: the file keeps
\* its content, and no entry is created anywhere.
C12_UnexpectedFile ==
    (fs0[csource] = "dir" /\ IsFile(fs0[ctarget]) /\ cret.state # "called") =>
        /\ cret = [state |-> "err", kind |-> "UnexpectedFile",
                   paths |-> <<ctarget>>]
        /\ fs = fs0

\* A directory with an entry in it has been copied onto a file, and the call
\* has returned.
C12_Witness ==
    /\ fs0[csource] = "dir"
    /\ Children(fs0, csource) # {}
    /\ IsFile(fs0[ctarget])
    /\ cret.state = "err"

\* C13: after a successful copy of a regular file to an existing directory,
\* the directory holds a file under the source's file name with content
\* identical to the source's, whatever was there under that name, and is
\* still a directory; a call that fails with NoFileName has written nothing.
C13_FileIntoDir ==
    /\ (IsFile(fs0[csource]) /\ fs0[ctarget] = "dir" /\ cret.state = "ok") =>
           /\ IsFile(fs[ctarget \o <<Last(csource)>>])
           /\ fs[ctarget \o <<Last(csource)>>] = fs[csource]
           /\ fs[ctarget] = "dir"
    /\ (cret.state = "err" /\ cret.kind = "NoFileName") => fs = fs0

\* A file has been copied into a directory that held another file, of other
\* content, under its name.
C13_Witness ==
    /\ IsFile(fs0[csource])
    /\ fs0[ctarget] = "dir"
    /\ cret.state = "ok"
    /\ IsFile(fs0[ctarget \o <<Last(csource)>>])
    /\ fs0[ctarget \o <<Last(csource)>>] # fs0[csource]
    /\ fs[ctarget \o <<Last(csource)>>] = fs0[csource]

\* C14: after a successful copy of a regular file to a target that was not a
\* directory, every ancestor of the target is a directory, the file at the
\* target has content identical to the source's, and no file has appeared at
\* any other path.
C14_FileToPath ==
    (IsFile(fs0[csource]) /\ fs0[ctarget] # "dir" /\ cret.state = "ok") =>
        /\ \A k \in 1..(Len(ctarget) - 1) : fs[SubSeq(ctarget, 1, k)] = "dir"
        /\ IsFile(fs[ctarget])
        /\ fs[ctarget] = fs[csource]
        /\ \A x \in CopyPaths \ {ctarget} : IsFile(fs[x]) => IsFile(fs0[x])

\* A file has been copied to a path that did not exist, in a directory that
\* did not exist.
C14_Witness ==
    /\ IsFile(fs0[csource])
    /\ Len(ctarget) = 2
    /\ fs0[Front(ctarget)] = "absent"
    /\ cret.state = "ok"
    /\ fs[ctarget] = fs0[csource]

\* C15: open_file_lock on a path with no file returns FileOpen with that path,
\* hands out no handle, takes no lock and changes nothing on the filesystem:
\* no file and no directory is made; on an existing file it changes neither
\* the file nor its content.
C15_OpenChangesNothing ==
    [][\A p \in Procs :
          (pc[p] = "idle" /\ kind'[p] = "open") =>
              /\ exists' = exists
              /\ content' = content
              /\ flock' = flock
              /\ ~exists[batch'[p][1]] =>
                     /\ pc'[p] = "done"
                     /\ exitKind'[p] = "FileOpen"
                     /\ ~wrapper'[p]
                     /\ guards'[p] = <<>>]_vars

\* open_file_lock has failed on a path that holds no file.
C15_Witness ==
    \E p \in Procs :
        /\ pc[p] = "done"
        /\ kind[p] = "open"
        /\ exitKind[p] = "FileOpen"
        /\ ~exists[batch[p][1]]

\* C16: whichever policy is asked about a path, whatever
\* config_file_parent_path the instance was constructed with, however often
\* and in whatever order, the answer is the same.
C16_SameAnswer ==
    \A i, j \in DOMAIN cres : cres[i].answer = cres[j].answer

\* Both policies, constructed with different config_file_parent_path, have
\* answered true about "src/a".
C16_Witness ==
    /\ cpath = <<"s", "r", "c", "/", "a">>
    /\ \E i, j \in DOMAIN cres :
          /\ cres[i].policy = "ant"
          /\ cres[j].policy = "make"
          /\ cres[i].conf # cres[j].conf
          /\ cres[i].answer
          /\ cres[j].answer

\* The loop of the recursive copy has returned an error for the entry at the
\* head of the walk.
LoopFailed ==
    /\ fs0[csource] = "dir"
    /\ cret.state = "err"
    /\ cret.kind \in {"DirCreate", "FileCopy"}

\* The entries the loop got through are in the target, and no other entry's
\* place in the target has changed.
PartlyCopied ==
    /\ \A e \in copied :
          /\ IsFile(fs0[e]) => fs[AtTarget(e)] = fs[e]
          /\ fs0[e] = "dir" => fs[AtTarget(e)] = "dir"
    /\ \A e \in Under(fs0, csource) \ copied :
          fs[AtTarget(e)] = fs0[AtTarget(e)]

\* C17 as stated: when the copy of an entry fails, the error carries that
\* entry's source path and target path, no later entry is copied and every
\* earlier one stays in the target.
C17_CarriesBothPaths ==
    LoopFailed =>
        /\ cret.paths = <<Head(walk), AtTarget(Head(walk))>>
        /\ PartlyCopied

\* C17 amended: the error of a failed file copy carries the entry's source
\* and target path; the error of a failed directory creation carries the path
\* of that directory alone, which is the entry's target for a directory and
\* the parent of the entry's target for a file.
C17_FirstFailure ==
    LoopFailed =>
        /\ cret.kind = "FileCopy" =>
               cret.paths = <<Head(walk), AtTarget(Head(walk))>>
        /\ cret.kind = "DirCreate" =>
               cret.paths = IF fs0[Head(walk)] = "dir"
                            THEN <<AtTarget(Head(walk))>>
                            ELSE <<Front(AtTarget(Head(walk)))>>
        /\ PartlyCopied

\* The copy has failed at an entry that is neither the first nor the last of
\* the walk.
C17_Witness ==
    /\ LoopFailed
    /\ copied # {}
    /\ \E e \in Under(fs0, csource) : e \notin copied /\ e # Head(walk)

\* The places copy is to write for the entries of its source.
Destinations ==
    IF fs0[csource] = "dir"
    THEN {AtTarget(e) : e \in Under(fs0, csource)}
    ELSE IF fs0[ctarget] = "dir"
         THEN {ctarget \o <<Last(csource)>>}
         ELSE {ctarget}

\* C18: at every point of a copy, and however it ends, whatever the
\* filesystem held outside the destinations of the source's entries is still
\* there unchanged, and every entry of the source is as it was.
C18_OnlyAddsOrOverwrites ==
    /\ \A x \in CopyPaths \ Destinations :
          fs0[x] # "absent" => fs[x] = fs0[x]
    /\ \A e \in Under(fs0, csource) : fs[e] = fs0[e]

\* Process p is blocked on a lock that q holds.
WaitsFor(p, q) ==
    /\ p # q
    /\ pc[p] = "lock"
    /\ flock[NextPath(p)] = q

====
